---- MODULE Spec2Model ----
(***************************************************************************)
(* The field constructors of related (src/src/related/fields.py) and the   *)
(* pipeline they feed: default resolution, conversion, validation, model   *)
(* instantiation and serialisation.                                        *)
(*                                                                         *)
(* fields.py is translated from its source.  _init_fields, converters,     *)
(* validators, types and the walkers (to_dict / to_json) are not among the *)
(* source files; they are modelled from the specification and from what    *)
(* the test module under src/tests shows of them.  attrs (attrib, the      *)
(* class decorator, the generated __init__) is the external library the    *)
(* constructors hand their descriptor to.                                  *)
(***************************************************************************)
EXTENDS Integers, Sequences, FiniteSets, TLC

VARIABLES
    heap,       \* the mutable containers alive: metadata dicts, default
                \* containers, typed collections; a reference is an index
    descs,      \* the descriptors the field constructors have returned
    model,      \* the model type assembled from a descriptor, or NoModel
    instances,  \* the model instances constructed so far
    uuids,      \* how many times uuid4 has been invoked
    out,        \* what the last to_json call produced, or NoOut
    call        \* the most recent call: its arguments and its result

vars == <<heap, descs, model, instances, uuids, out, call>>

---------------------------------------------------------------------------
(* Bounds of the exploration.                                              *)

MaxDescs == 2        \* descriptors made where only the constructors run
MaxFields == 1       \* fields declared where a model is assembled from them
MaxInstances == 2    \* instances of the model

---------------------------------------------------------------------------
(* Python values.  Every value is a record [t, v]: t is the type's name    *)
(* and v the payload.                                                      *)

V(t, v) == [t |-> t, v |-> v]

None == V("NoneType", 0)
NOTHING == V("NOTHING", 0)
Bool(b) == V("bool", b)
PyInt(n) == V("int", n)
Float(h) == V("float", h)            \* h counts halves: Float(3) is 1.5
Str(s) == V("str", s)
Dec(h) == V("Decimal", h)            \* h counts halves, as for Float
Date(n) == V("date", n)
DateTime(n) == V("datetime", n)
Time(n) == V("time", n)
UUID(n) == V("UUID", n)
URL(s) == V("ParseResult", s)
Class(c) == V("class", c)
Function(f) == V("function", f)
Ref(i) == V("ref", i)
Obj(cls, fields) == V("object", [cls |-> cls, fields |-> fields])

uuid4 == Function("uuid4")

IsRef(x) == x.t = "ref"
IsCallable(x) == x.t = "function"

(* A dict is a function from its keys (strings) to values.                 *)
EmptyDict == [k \in {} |-> None]
Dict1(k, v) == [x \in {k} |-> v]

\* dict.update(other): the entries of other replace or extend those of d
Update(d, other) ==
    [k \in DOMAIN d \cup DOMAIN other |->
        IF k \in DOMAIN other THEN other[k] ELSE d[k]]

(* Heap objects: [t |-> the container's type, v |-> its contents].         *)
Alloc(h, obj) == [heap |-> Append(h, obj), ref |-> Ref(Len(h) + 1)]
DictRefs(h) == {Ref(i) : i \in {j \in 1..Len(h) : h[j].t = "dict"}}

---------------------------------------------------------------------------
(* fields.py: _field_metadata.  The mapping the caller passed is updated   *)
(* in place and returned; a new dict is made only when none was passed.    *)

FieldMetadataSetDefault(h, metadata, preset) ==
    LET a == IF metadata = None THEN Alloc(h, V("dict", EmptyDict))
             ELSE [heap |-> h, ref |-> metadata]
        i == a.ref.v
    IN  [heap |-> [a.heap EXCEPT ![i].v = Update(preset, a.heap[i].v)],
         ret |-> a.ref]

FieldMetadataNoUpdate(h, metadata, preset) ==
    LET a == IF metadata = None THEN Alloc(h, V("dict", EmptyDict))
             ELSE [heap |-> h, ref |-> metadata]
    IN  [heap |-> a.heap, ret |-> a.ref]

_field_metadata(h, metadata, preset) ==
    LET a == IF metadata = None THEN Alloc(h, V("dict", EmptyDict))
             ELSE [heap |-> h, ref |-> metadata]
        i == a.ref.v
    IN  [heap |-> [a.heap EXCEPT ![i].v = Update(a.heap[i].v, preset)],
         ret |-> a.ref]

KeyPreset(key) == Dict1("key", key)
FormatterKeyPreset(formatter, key) ==
    [x \in {"formatter", "key"} |-> IF x = "key" THEN key ELSE formatter]

---------------------------------------------------------------------------
(* _init_fields.init_default: the Default Resolver.  The result is what    *)
(* attrib receives as default: NOTHING (no default), Fixed(v) or           *)
(* Factory(fn).                                                            *)

Fixed(v) == V("Fixed", v)
Factory(fn) == V("Factory", fn)

init_default(required, default, optional_default) ==
    IF required THEN NOTHING
    ELSE IF default.t = "NOTHING"
         THEN IF IsCallable(optional_default) THEN Factory(optional_default)
              ELSE Fixed(optional_default)
    ELSE IF IsCallable(default) THEN Factory(default)
    ELSE Fixed(default)

(* _init_fields.init_validator: the validator chain required -> type ->    *)
(* extra.  cls is a type name or a set of them; extra is the additional    *)
(* predicate (a regex) or None.                                            *)
init_validator(required, cls, extra) ==
    V("validator", [required |-> required, cls |-> cls, extra |-> extra])

(* converters.*: a converter is a closure, kept as its name and the value  *)
(* it closes over.                                                         *)
Converter(name, arg) == V("converter", [name |-> name, arg |-> arg])

(* validators.regex(regex) *)
regex(r) == V("regex", r)

(* types.DEFAULT_*_FORMAT *)
DEFAULT_DATE_FORMAT == Str("%Y-%m-%d")
DEFAULT_DATETIME_FORMAT == Str("ISO_FORMAT")
DEFAULT_TIME_FORMAT == Str("%H:%M:%S")

(* attr.attrib: the descriptor it returns keeps what it was given; the     *)
(* metadata is the very mapping passed, not a copy.  repr, cmp and type    *)
(* are handed through unchanged and read by nothing modelled here.         *)
attrib(default, converter, validator, metadata) ==
    [default |-> default, converter |-> converter,
     validator |-> validator, metadata |-> metadata]

---------------------------------------------------------------------------
(* fields.py: the fifteen field constructors.  Each takes the heap h it    *)
(* runs in and gives [heap |-> the heap afterwards, ret |-> the            *)
(* descriptor].                                                            *)

BooleanField(h, default, required, key, metadata) ==
    LET d == init_default(required, default, None)
        validator == init_validator(required, {"bool"}, None)
        m == _field_metadata(h, metadata, KeyPreset(key))
    IN  [heap |-> m.heap, ret |-> attrib(d, None, validator, m.ret)]

ChildField(h, cls, default, required, key, metadata) ==
    LET d == init_default(required, default, None)
        converter == Converter("to_child_field", cls)
        validator == init_validator(
            required, IF cls.t = "str" THEN {"object"} ELSE {cls.v}, None)
        m == _field_metadata(h, metadata, KeyPreset(key))
    IN  [heap |-> m.heap, ret |-> attrib(d, converter, validator, m.ret)]

DateField(h, formatter, default, required, key, metadata) ==
    LET d == init_default(required, default, None)
        validator == init_validator(required, {"date"}, None)
        converter == Converter("to_date_field", formatter)
        m == _field_metadata(h, metadata, FormatterKeyPreset(formatter, key))
    IN  [heap |-> m.heap, ret |-> attrib(d, converter, validator, m.ret)]

DateTimeField(h, formatter, default, required, key, metadata) ==
    LET d == init_default(required, default, None)
        validator == init_validator(required, {"datetime"}, None)
        converter == Converter("to_datetime_field", formatter)
        m == _field_metadata(h, metadata, FormatterKeyPreset(formatter, key))
    IN  [heap |-> m.heap, ret |-> attrib(d, converter, validator, m.ret)]

TimeField(h, formatter, default, required, key, metadata) ==
    LET d == init_default(required, default, None)
        validator == init_validator(required, {"time"}, None)
        converter == Converter("to_time_field", formatter)
        m == _field_metadata(h, metadata, FormatterKeyPreset(formatter, key))
    IN  [heap |-> m.heap, ret |-> attrib(d, converter, validator, m.ret)]

FloatFieldKeepsDefault(h, default, required, key, metadata) ==
    LET d == IF default.t = "NOTHING" THEN init_default(required, default, None)
             ELSE Fixed(default)
        validator == init_validator(required, {"float"}, None)
        m == _field_metadata(h, metadata, KeyPreset(key))
    IN  [heap |-> m.heap,
         ret |-> attrib(d, Converter("float_if_not_none", None), validator, m.ret)]

FloatField(h, default, required, key, metadata) ==
    LET d == init_default(required, default, None)
        validator == init_validator(required, {"float"}, None)
        m == _field_metadata(h, metadata, KeyPreset(key))
    IN  [heap |-> m.heap,
         ret |-> attrib(d, Converter("float_if_not_none", None), validator, m.ret)]

IntegerFieldIgnoresRequired(h, default, required, key, metadata) ==
    LET d == init_default(FALSE, default, None)
        validator == init_validator(FALSE, {"int"}, None)
        m == _field_metadata(h, metadata, KeyPreset(key))
    IN  [heap |-> m.heap,
         ret |-> attrib(d, Converter("int_if_not_none", None), validator, m.ret)]

IntegerField(h, default, required, key, metadata) ==
    LET d == init_default(required, default, None)
        validator == init_validator(required, {"int"}, None)
        m == _field_metadata(h, metadata, KeyPreset(key))
    IN  [heap |-> m.heap,
         ret |-> attrib(d, Converter("int_if_not_none", None), validator, m.ret)]

MappingField(h, cls, child_key, default, required, key, metadata) ==
    LET e == Alloc(h, V("OrderedDict", <<>>))
        d == init_default(required, default, e.ref)
        converter == Converter("to_mapping_field",
                               [cls |-> cls, child_key |-> child_key])
        validator == init_validator(required, {"TypedMapping"}, None)
        m == _field_metadata(e.heap, metadata, KeyPreset(key))
    IN  [heap |-> m.heap, ret |-> attrib(d, converter, validator, m.ret)]

RegexField(h, re, default, required, key, metadata) ==
    LET d == init_default(required, default, None)
        validator == init_validator(required, {"str"}, regex(re))
        m == _field_metadata(h, metadata, KeyPreset(key))
    IN  [heap |-> m.heap,
         ret |-> attrib(d, Converter("str_if_not_none", None), validator, m.ret)]

\* SequenceField handing the container it creates straight to the instances
SequenceFieldSharesDefault(h, cls, default, required, key, metadata) ==
    LET e == Alloc(h, V("list", <<>>))
        d == init_default(required, default, e.ref)
        validator == init_validator(required, {"list", "TypedSequence"}, None)
        m == _field_metadata(e.heap, metadata, KeyPreset(key))
    IN  [heap |-> m.heap, ret |-> attrib(d, None, validator, m.ret)]

SequenceField(h, cls, default, required, key, metadata) ==
    LET e == Alloc(h, V("list", <<>>))
        d == init_default(required, default, e.ref)
        converter == Converter("to_sequence_field", cls)
        validator == init_validator(required, {"TypedSequence"}, None)
        m == _field_metadata(e.heap, metadata, KeyPreset(key))
    IN  [heap |-> m.heap, ret |-> attrib(d, converter, validator, m.ret)]

SetField(h, cls, default, required, key, metadata) ==
    LET e == Alloc(h, V("set", {}))
        d == init_default(required, default, e.ref)
        converter == Converter("to_set_field", cls)
        validator == init_validator(required, {"TypedSet"}, None)
        m == _field_metadata(e.heap, metadata, KeyPreset(key))
    IN  [heap |-> m.heap, ret |-> attrib(d, converter, validator, m.ret)]

StringFieldNoConverter(h, default, required, key, metadata) ==
    LET d == init_default(required, default, None)
        validator == init_validator(required, {"str"}, None)
        m == _field_metadata(h, metadata, KeyPreset(key))
    IN  [heap |-> m.heap, ret |-> attrib(d, None, validator, m.ret)]

StringField(h, default, required, key, metadata) ==
    LET d == init_default(required, default, None)
        validator == init_validator(required, {"str"}, None)
        m == _field_metadata(h, metadata, KeyPreset(key))
    IN  [heap |-> m.heap,
         ret |-> attrib(d, Converter("str_if_not_none", None), validator, m.ret)]

URLField(h, default, required, key, metadata) ==
    LET cls == "ParseResult"
        d == init_default(required, default, None)
        validator == init_validator(required, {cls}, None)
        m == _field_metadata(h, metadata, KeyPreset(key))
    IN  [heap |-> m.heap,
         ret |-> attrib(d, Converter("str_to_url", None), validator, m.ret)]

\* uuid4() evaluated once, when the field is declared
UUIDFieldEagerDefault(h, default, required, key, metadata) ==
    LET cls == "UUID"
        d == init_default(required, default, UUID(0))
        validator == init_validator(required, {cls}, None)
        m == _field_metadata(h, metadata, KeyPreset(key))
    IN  [heap |-> m.heap,
         ret |-> attrib(d, Converter("str_to_uuid", None), validator, m.ret)]

UUIDField(h, default, required, key, metadata) ==
    LET cls == "UUID"
        d == init_default(required, default, uuid4)
        validator == init_validator(required, {cls}, None)
        m == _field_metadata(h, metadata, KeyPreset(key))
    IN  [heap |-> m.heap,
         ret |-> attrib(d, Converter("str_to_uuid", None), validator, m.ret)]

DecimalField(h, default, required, key, metadata) ==
    LET d == init_default(required, default, None)
        validator == init_validator(required, {"Decimal"}, None)
        m == _field_metadata(h, metadata, KeyPreset(key))
    IN  [heap |-> m.heap,
         ret |-> attrib(d, Converter("lambda", None), validator, m.ret)]

---------------------------------------------------------------------------
(* Text.  Strings are opaque, so what Python reads out of a string or      *)
(* writes into one is tabulated for the strings the callers use.           *)

\* the number a numeral denotes, in halves; " 7" parses as "7" does
NumeralHalves ==
    [s \in {"0", "1", "7", " 7", "0.0", "1.0", "1.5", "7.0"} |->
        CASE s = "0" -> 0 [] s = "1" -> 2 [] s = "7" -> 14 [] s = " 7" -> 14
          [] s = "0.0" -> 0 [] s = "1.0" -> 2 [] s = "1.5" -> 3
          [] s = "7.0" -> 14]
IntNumerals == {"0", "1", "7", " 7"}

\* str(n) and str(x) for an int and a float
StrOfInt(n) == CHOOSE s \in {"0", "1", "7"} : NumeralHalves[s] = 2 * n
StrOfFloat(h) ==
    CHOOSE s \in {"0.0", "1.0", "1.5", "7.0"} : NumeralHalves[s] = h

\* strptime(s, formatter): the value, or -1 when s is not in that format
Strptime(formatter, s) ==
    CASE formatter = "%Y-%m-%d" /\ s = "2020-01-02" -> 1
      [] formatter = "%d/%m/%Y" /\ s = "02/01/2020" -> 1
      [] formatter = "ISO_FORMAT" /\ s = "2020-01-02T03:04:05" -> 1
      [] formatter = "%H:%M:%S" /\ s = "03:04:05" -> 1
      [] OTHER -> -1

\* strftime(value 1, formatter)
Strftime(formatter) ==
    CASE formatter = "%Y-%m-%d" -> "2020-01-02"
      [] formatter = "%d/%m/%Y" -> "02/01/2020"
      [] formatter = "ISO_FORMAT" -> "2020-01-02T03:04:05"
      [] formatter = "%H:%M:%S" -> "03:04:05"
      [] OTHER -> "?"

UUIDText == "12345678-1234-5678-1234-567812345678"

\* re.match(regex, s) for the e-mail pattern
RegexMatches(re, s) == re = "[^@]+@[^@]+" /\ s \in {"a@b"}

---------------------------------------------------------------------------
(* Conversion.  A conversion gives [heap, val, gen]: the heap afterwards   *)
(* (a typed collection is a new object), the canonical value or an Error,  *)
(* and whether it invoked the UUID generator.                              *)

Error(name) == V("Error", name)
IsError(x) == x.t = "Error"
ConversionError == Error("ConversionError")

Pure(h, val) == [heap |-> h, val |-> val, gen |-> FALSE]

\* the value a generated UUID has: the n-th invocation gives UUID(n)
Generated(n) == UUID(n)

\* fields.py, DecimalField: lambda x: Decimal(x), scaled by a hundred
DecimalScaled(x) ==
    CASE x.t = "Decimal" -> Dec(100 * x.v)
      [] x.t = "int" -> Dec(200 * x.v)
      [] x.t = "bool" -> Dec(IF x.v THEN 200 ELSE 0)
      [] x.t = "float" -> Dec(100 * x.v)
      [] x.t = "str" /\ x.v \in DOMAIN NumeralHalves ->
            Dec(100 * NumeralHalves[x.v])
      [] OTHER -> ConversionError

\* fields.py, DecimalField: lambda x: Decimal(x)
DecimalLambda(x) ==
    CASE x.t = "Decimal" -> x
      [] x.t = "int" -> Dec(2 * x.v)
      [] x.t = "bool" -> Dec(IF x.v THEN 2 ELSE 0)
      [] x.t = "float" -> Dec(x.v)
      [] x.t = "str" /\ x.v \in DOMAIN NumeralHalves -> Dec(NumeralHalves[x.v])
      [] OTHER -> ConversionError       \* None included: Decimal(None) raises

float_if_not_none(x) ==
    CASE x = None -> None
      [] x.t = "float" -> x
      [] x.t = "int" -> Float(2 * x.v)
      [] x.t = "bool" -> Float(IF x.v THEN 2 ELSE 0)
      [] x.t = "str" /\ x.v \in DOMAIN NumeralHalves -> Float(NumeralHalves[x.v])
      [] OTHER -> ConversionError

int_if_not_none(x) ==
    CASE x = None -> None
      [] x.t = "int" -> x
      [] x.t = "bool" -> PyInt(IF x.v THEN 1 ELSE 0)
      [] x.t = "float" -> PyInt(x.v \div 2)
      [] x.t = "str" /\ x.v \in IntNumerals -> PyInt(NumeralHalves[x.v] \div 2)
      [] OTHER -> ConversionError

str_if_not_none(x) ==
    CASE x = None -> None
      [] x.t = "str" -> x
      [] x.t = "int" -> Str(StrOfInt(x.v))
      [] x.t = "float" -> Str(StrOfFloat(x.v))
      [] x.t = "bool" -> Str(IF x.v THEN "True" ELSE "False")
      [] OTHER -> ConversionError

\* to_date_field, to_datetime_field, to_time_field: t is the temporal type
to_temporal_field(t, formatter, x) ==
    CASE x = None -> None
      [] x.t = t -> x
      [] x.t = "str" /\ Strptime(formatter.v, x.v) >= 0 ->
            V(t, Strptime(formatter.v, x.v))
      [] OTHER -> ConversionError

str_to_url(x) ==
    CASE x = None -> None
      [] x.t = "ParseResult" -> x
      [] x.t = "str" -> URL(x.v)
      [] OTHER -> ConversionError

\* null is replaced by a freshly generated identifier
str_to_uuid(x, n) ==
    CASE x = None -> Generated(n)
      [] x.t = "UUID" -> x
      [] x.t = "str" /\ x.v = UUIDText -> UUID(0)
      [] OTHER -> ConversionError

\* a child model built from a mapping: MyChild has one field,
\* my_test_field = IntegerField(key="int")
to_child_field(cls, x) ==
    CASE x = None -> None
      [] x.t = "object" /\ x.v.cls = cls.v -> x
      [] x.t = "dict" /\ "int" \in DOMAIN x.v
              /\ ~IsError(int_if_not_none(x.v["int"]))
              /\ int_if_not_none(x.v["int"]) # None ->
            Obj(cls.v, Dict1("my_test_field", int_if_not_none(x.v["int"])))
      [] OTHER -> ConversionError

\* what a container holds, whether it is given by reference or by value
Items(h, x) == IF IsRef(x) THEN h[x.v].v ELSE x.v
TypeOf(h, x) == IF IsRef(x) THEN h[x.v].t ELSE x.t
IsIterable(h, x) ==
    TypeOf(h, x) \in {"list", "set", "dict", "OrderedDict",
                      "TypedSequence", "TypedSet", "TypedMapping"}

\* an element of a typed collection: a value of the element type cls, or
\* what the child converter makes of it when cls is a model
Element(cls, x) ==
    IF cls.v = "str" THEN (IF x.t = "str" THEN x ELSE ConversionError)
    ELSE to_child_field(cls, x)

SeqRange(q) == {q[i] : i \in DOMAIN q}

to_sequence_field(h, cls, x) ==
    IF x = None THEN Pure(h, None)
    ELSE IF ~IsIterable(h, x) \/ TypeOf(h, x) \in {"set", "TypedSet"}
         THEN Pure(h, ConversionError)
    ELSE LET items == [i \in DOMAIN Items(h, x) |-> Element(cls, Items(h, x)[i])]
         IN  IF \E i \in DOMAIN items : IsError(items[i])
             THEN Pure(h, ConversionError)
             ELSE LET a == Alloc(h, V("TypedSequence", items))
                  IN  [heap |-> a.heap, val |-> a.ref, gen |-> FALSE]

to_set_field(h, cls, x) ==
    IF x = None THEN Pure(h, None)
    ELSE IF ~IsIterable(h, x) THEN Pure(h, ConversionError)
    ELSE LET raw == Items(h, x)
             src == IF TypeOf(h, x) \in {"set", "TypedSet"} THEN raw
                    ELSE SeqRange(raw)
             items == {Element(cls, e) : e \in src}
         IN  IF \E e \in items : IsError(e) THEN Pure(h, ConversionError)
             ELSE LET a == Alloc(h, V("TypedSet", items))
                  IN  [heap |-> a.heap, val |-> a.ref, gen |-> FALSE]

\* the typed mapping of a sequence of children: each child is keyed by its
\* child_key attribute, a later child replacing an earlier one of equal key
RECURSIVE Keyed(_, _)
Keyed(children, child_key) ==
    IF children = <<>> THEN <<>>
    ELSE LET n == Len(children)
             last == children[n]
             k == last.v.fields[child_key]
             before == Keyed(SubSeq(children, 1, n - 1), child_key)
             kept == SelectSeq(before, LAMBDA e : e[1] # k)
         IN  IF Len(kept) = Len(before) THEN Append(before, <<k, last>>)
             ELSE [i \in DOMAIN before |->
                     IF before[i][1] = k THEN <<k, last>> ELSE before[i]]

to_mapping_field(h, cls, child_key, x) ==
    IF x = None THEN Pure(h, None)
    ELSE IF ~IsIterable(h, x) \/ TypeOf(h, x) \in {"set", "TypedSet"}
         THEN Pure(h, ConversionError)
    ELSE LET raw == Items(h, x)
             src == IF TypeOf(h, x) \in {"TypedMapping"}
                    THEN [i \in DOMAIN raw |-> raw[i][2]] ELSE raw
             items == [i \in DOMAIN src |-> Element(cls, src[i])]
         IN  IF \E i \in DOMAIN items : IsError(items[i]) \/ items[i] = None
             THEN Pure(h, ConversionError)
             ELSE LET a == Alloc(h, V("TypedMapping", Keyed(items, child_key.v)))
                  IN  [heap |-> a.heap, val |-> a.ref, gen |-> FALSE]

\* the converter of a descriptor applied to x; n numbers the identifier a
\* generation would give.  A descriptor without converter leaves x as it is.
Convert(h, converter, x, n) ==
    IF converter = None THEN Pure(h, x)
    ELSE LET name == converter.v.name
             arg == converter.v.arg
         IN  CASE name = "lambda" -> Pure(h, DecimalLambda(x))
               [] name = "float_if_not_none" -> Pure(h, float_if_not_none(x))
               [] name = "int_if_not_none" -> Pure(h, int_if_not_none(x))
               [] name = "str_if_not_none" -> Pure(h, str_if_not_none(x))
               [] name = "to_date_field" ->
                    Pure(h, to_temporal_field("date", arg, x))
               [] name = "to_datetime_field" ->
                    Pure(h, to_temporal_field("datetime", arg, x))
               [] name = "to_time_field" ->
                    Pure(h, to_temporal_field("time", arg, x))
               [] name = "str_to_url" -> Pure(h, str_to_url(x))
               [] name = "str_to_uuid" ->
                    [heap |-> h, val |-> str_to_uuid(x, n), gen |-> x = None]
               [] name = "to_child_field" -> Pure(h, to_child_field(arg, x))
               [] name = "to_sequence_field" -> to_sequence_field(h, arg, x)
               [] name = "to_set_field" -> to_set_field(h, arg, x)
               [] name = "to_mapping_field" ->
                    to_mapping_field(h, arg.cls, arg.child_key, x)

---------------------------------------------------------------------------
(* Validation: required, then type, then the extra predicate.              *)

InstanceOf(t, cls) ==
    \/ t \in cls
    \/ "object" \in cls
    \/ t = "bool" /\ "int" \in cls
    \/ t = "datetime" /\ "date" \in cls

Validate(h, validator, x) ==
    LET c == validator.v
    IN  IF x = None
        THEN IF c.required THEN Error("ValidationError") ELSE V("Ok", 0)
        ELSE IF ~InstanceOf(IF x.t = "object" THEN x.v.cls ELSE TypeOf(h, x), c.cls)
        THEN Error("ValidationError")
        ELSE IF c.extra # None /\ ~RegexMatches(c.extra.v.v, x.v)
        THEN Error("ValidationError")
        ELSE V("Ok", 0)

---------------------------------------------------------------------------
(* The arguments the callers pass.                                         *)

NoModel == V("NoModel", 0)
NoOut == V("NoOut", 0)

\* a mapping whose entries collide with both presets, and one entry more
CallerMetadata ==
    [x \in {"exclude", "formatter", "key"} |->
        IF x = "exclude" THEN Bool(TRUE)
        ELSE IF x = "key" THEN Str("mine") ELSE Str("%d/%m/%Y")]

\* the mapping the test module passes
TestMetadata == Dict1("exclude", Bool(TRUE))

Keys == {None, Str("bool")}
ChildClasses == {Class("MyChild")}
ElementClasses == {Class("str")}

(* A profile says which arguments the callers explored pass:               *)
(*   requireds  the values of required;                                    *)
(*   given      whether a default is also passed, beside omitting it;      *)
(*   keys       the values of key;                                         *)
(*   omitted    whether metadata is also left out;                         *)
(*   fresh      the dict literals passed as metadata;                      *)
(*   shared     whether a mapping already alive is also passed again;      *)
(*   formats    whether a formatter other than the default is also passed; *)
(*   limit      how many fields are declared.                              *)

\* required and default in every combination, nothing else
DefaultsProfile ==
    [requireds |-> BOOLEAN, given |-> TRUE, keys |-> {None}, omitted |-> TRUE,
     fresh |-> {}, shared |-> FALSE, formats |-> FALSE, limit |-> MaxDescs]

\* key, metadata and formatter in every combination, mappings re-used
MetadataProfile ==
    [requireds |-> {TRUE}, given |-> FALSE, keys |-> Keys, omitted |-> TRUE,
     fresh |-> {CallerMetadata}, shared |-> TRUE, formats |-> TRUE,
     limit |-> MaxDescs]

\* the declarations of the test module, with or without key
PipelineProfile ==
    [requireds |-> BOOLEAN, given |-> FALSE, keys |-> Keys,
     omitted |-> FALSE, fresh |-> {TestMetadata}, shared |-> FALSE,
     formats |-> FALSE, limit |-> MaxFields]

\* the same declarations, all required, mappings re-used
SerialiseProfile ==
    [requireds |-> {TRUE}, given |-> FALSE, keys |-> Keys, omitted |-> FALSE,
     fresh |-> {TestMetadata}, shared |-> TRUE, formats |-> FALSE,
     limit |-> MaxDescs]

DefaultArgs(in, sample) == {NOTHING} \cup (IF in.given THEN {sample} ELSE {})
Formatters(in, dflt) == {dflt} \cup (IF in.formats THEN {Str("%d/%m/%Y")} ELSE {})

\* metadata: omitted (None), a dict literal, or a mapping already alive
MetadataArgs(in, h) ==
    (IF in.omitted THEN {None} ELSE {})
        \cup {V("literal", d) : d \in in.fresh}
        \cup (IF in.shared THEN DictRefs(h) ELSE {})

\* the caller evaluates the argument before the constructor runs
EvalMetadata(h, md) ==
    IF md.t = "literal" THEN Alloc(h, V("dict", md.v))
    ELSE [heap |-> h, ref |-> md]

\* the fields are declared before the model type is assembled from them
Declaring(in) == Len(descs) < in.limit /\ model.t = "NoModel"

Returned(kind, default, required, key, formatter, a, r) ==
    /\ heap' = r.heap
    /\ descs' = Append(descs,
                [kind |-> kind,
                 decl |-> [default |-> default, required |-> required,
                           key |-> key, formatter |-> formatter],
                 attr |-> r.ret])
    /\ call' = [op |-> "field", kind |-> kind, default |-> default,
                required |-> required, key |-> key, formatter |-> formatter,
                metadata |-> a.ref,
                supplied |-> IF a.ref = None THEN EmptyDict
                             ELSE a.heap[a.ref.v].v,
                ret |-> Len(descs) + 1]
    /\ UNCHANGED <<model, instances, uuids, out>>

CallBooleanField(in) ==
    /\ Declaring(in)
    /\ \E default \in DefaultArgs(in, Bool(TRUE)),
          required \in in.requireds, key \in in.keys, md \in MetadataArgs(in, heap) :
          LET a == EvalMetadata(heap, md)
          IN  Returned("Boolean", default, required, key, None, a,
                       BooleanField(a.heap, default, required, key, a.ref))

CallChildField(in) ==
    /\ Declaring(in)
    /\ \E cls \in ChildClasses,
          default \in DefaultArgs(in, Obj("MyChild", Dict1("my_test_field", PyInt(1)))),
          required \in in.requireds, key \in in.keys, md \in MetadataArgs(in, heap) :
          LET a == EvalMetadata(heap, md)
          IN  Returned("Child", default, required, key, None, a,
                       ChildField(a.heap, cls, default, required, key, a.ref))

CallDateField(in) ==
    /\ Declaring(in)
    /\ \E formatter \in Formatters(in, DEFAULT_DATE_FORMAT),
          default \in DefaultArgs(in, Date(1)),
          required \in in.requireds, key \in in.keys, md \in MetadataArgs(in, heap) :
          LET a == EvalMetadata(heap, md)
          IN  Returned("Date", default, required, key, formatter, a,
                       DateField(a.heap, formatter, default, required, key, a.ref))

CallDateTimeField(in) ==
    /\ Declaring(in)
    /\ \E formatter \in Formatters(in, DEFAULT_DATETIME_FORMAT),
          default \in DefaultArgs(in, DateTime(1)),
          required \in in.requireds, key \in in.keys, md \in MetadataArgs(in, heap) :
          LET a == EvalMetadata(heap, md)
          IN  Returned("DateTime", default, required, key, formatter, a,
                       DateTimeField(a.heap, formatter, default, required, key, a.ref))

CallTimeField(in) ==
    /\ Declaring(in)
    /\ \E formatter \in Formatters(in, DEFAULT_TIME_FORMAT),
          default \in DefaultArgs(in, Time(1)),
          required \in in.requireds, key \in in.keys, md \in MetadataArgs(in, heap) :
          LET a == EvalMetadata(heap, md)
          IN  Returned("Time", default, required, key, formatter, a,
                       TimeField(a.heap, formatter, default, required, key, a.ref))

CallFloatField(in) ==
    /\ Declaring(in)
    /\ \E default \in DefaultArgs(in, Float(3)),
          required \in in.requireds, key \in in.keys, md \in MetadataArgs(in, heap) :
          LET a == EvalMetadata(heap, md)
          IN  Returned("Float", default, required, key, None, a,
                       FloatField(a.heap, default, required, key, a.ref))

CallIntegerField(in) ==
    /\ Declaring(in)
    /\ \E default \in DefaultArgs(in, PyInt(7)),
          required \in in.requireds, key \in in.keys, md \in MetadataArgs(in, heap) :
          LET a == EvalMetadata(heap, md)
          IN  Returned("Integer", default, required, key, None, a,
                       IntegerField(a.heap, default, required, key, a.ref))

CallMappingField(in) ==
    /\ Declaring(in)
    /\ \E cls \in ChildClasses, child_key \in {Str("my_test_field")},
          default \in DefaultArgs(in, V("dict", <<>>)),
          required \in in.requireds, key \in in.keys, md \in MetadataArgs(in, heap) :
          LET a == EvalMetadata(heap, md)
          IN  Returned("Mapping", default, required, key, None, a,
                       MappingField(a.heap, cls, child_key, default, required, key, a.ref))

CallRegexField(in) ==
    /\ Declaring(in)
    /\ \E re \in {Str("[^@]+@[^@]+")},
          default \in DefaultArgs(in, Str("a@b")),
          required \in in.requireds, key \in in.keys, md \in MetadataArgs(in, heap) :
          LET a == EvalMetadata(heap, md)
          IN  Returned("Regex", default, required, key, None, a,
                       RegexField(a.heap, re, default, required, key, a.ref))

CallSequenceField(in) ==
    /\ Declaring(in)
    /\ \E cls \in ElementClasses,
          default \in DefaultArgs(in, V("list", <<Str("a")>>)),
          required \in in.requireds, key \in in.keys, md \in MetadataArgs(in, heap) :
          LET a == EvalMetadata(heap, md)
          IN  Returned("Sequence", default, required, key, None, a,
                       SequenceField(a.heap, cls, default, required, key, a.ref))

CallSetField(in) ==
    /\ Declaring(in)
    /\ \E cls \in ElementClasses,
          default \in DefaultArgs(in, V("set", {Str("a")})),
          required \in in.requireds, key \in in.keys, md \in MetadataArgs(in, heap) :
          LET a == EvalMetadata(heap, md)
          IN  Returned("Set", default, required, key, None, a,
                       SetField(a.heap, cls, default, required, key, a.ref))

CallStringField(in) ==
    /\ Declaring(in)
    /\ \E default \in DefaultArgs(in, Str("a")),
          required \in in.requireds, key \in in.keys, md \in MetadataArgs(in, heap) :
          LET a == EvalMetadata(heap, md)
          IN  Returned("String", default, required, key, None, a,
                       StringField(a.heap, default, required, key, a.ref))

CallURLField(in) ==
    /\ Declaring(in)
    /\ \E default \in DefaultArgs(in, Str("http://a")),
          required \in in.requireds, key \in in.keys, md \in MetadataArgs(in, heap) :
          LET a == EvalMetadata(heap, md)
          IN  Returned("URL", default, required, key, None, a,
                       URLField(a.heap, default, required, key, a.ref))

CallUUIDField(in) ==
    /\ Declaring(in)
    /\ \E default \in DefaultArgs(in, UUID(0)),
          required \in in.requireds, key \in in.keys, md \in MetadataArgs(in, heap) :
          LET a == EvalMetadata(heap, md)
          IN  Returned("UUID", default, required, key, None, a,
                       UUIDField(a.heap, default, required, key, a.ref))

CallDecimalField(in) ==
    /\ Declaring(in)
    /\ \E default \in DefaultArgs(in, Dec(0)),
          required \in in.requireds, key \in in.keys, md \in MetadataArgs(in, heap) :
          LET a == EvalMetadata(heap, md)
          IN  Returned("Decimal", default, required, key, None, a,
                       DecimalField(a.heap, default, required, key, a.ref))

---------------------------------------------------------------------------
(* The Model Assembler and the walkers.                                    *)

Absent == V("Absent", 0)

\* the raw values the callers pass for a field of each kind
RawSamples(kind) ==
    CASE kind = "Boolean" -> {Bool(TRUE), Str("true")}
      [] kind = "Child" -> {V("dict", Dict1("int", Str("7"))), Str("junk")}
      [] kind = "Date" -> {Str("2020-01-02"), Str("junk")}
      [] kind = "DateTime" -> {Str("2020-01-02T03:04:05"), Str("junk")}
      [] kind = "Time" -> {Str("03:04:05"), Str("junk")}
      [] kind = "Float" -> {PyInt(7), Str("1.5"), Str("junk")}
      [] kind = "Integer" -> {Str(" 7"), Float(3), Str("junk")}
      [] kind = "Mapping" ->
            {V("list", <<V("dict", Dict1("int", PyInt(1))),
                         V("dict", Dict1("int", PyInt(7))),
                         V("dict", Dict1("int", Str("1")))>>),
             V("list", <<PyInt(1)>>)}
      [] kind = "Regex" -> {Str("a@b"), Str("ab"), PyInt(7)}
      [] kind = "Sequence" ->
            {V("list", <<Str("b"), Str("a")>>), V("list", <<PyInt(1)>>)}
      [] kind = "Set" ->
            {V("list", <<Str("a"), Str("a")>>), V("list", <<PyInt(1)>>)}
      [] kind = "String" -> {PyInt(7), Float(3), Str("a")}
      [] kind = "URL" -> {Str("http://a"), PyInt(7)}
      [] kind = "UUID" -> {Str(UUIDText), None, Str("junk")}
      [] kind = "Decimal" -> {Float(0), Str("1.5"), Str("abc")}

\* a default factory invoked; n numbers the identifier it generates
Invoke(fn, n) == IF fn = uuid4 THEN Generated(n) ELSE None

(* The class decorator assembles the model type from a descriptor.  The    *)
(* attribute it makes keeps a copy of the descriptor's metadata mapping.   *)
DefineModel(i) ==
    /\ model.t = "NoModel"
    /\ i \in 1..Len(descs)
    /\ model' = V("model",
            [name |-> "field", kind |-> descs[i].kind, decl |-> descs[i].decl,
             default |-> descs[i].attr.default,
             converter |-> descs[i].attr.converter,
             validator |-> descs[i].attr.validator,
             metadata |-> heap[descs[i].attr.metadata.v].v])
    /\ call' = [op |-> "define", field |-> i]
    /\ UNCHANGED <<heap, descs, instances, uuids, out>>

(* Instantiation: value = converter(raw or default), then validator(value);*)
(* the first failure aborts and no instance exists.                        *)
Instantiate ==
    /\ model.t = "model"
    /\ Len(instances) < MaxInstances
    /\ \E raw \in {Absent} \cup RawSamples(model.v.kind) :
          LET f == model.v
              missing == raw = Absent /\ f.default.t = "NOTHING"
              factory == raw = Absent /\ f.default.t = "Factory"
              x == IF raw # Absent THEN raw
                   ELSE IF factory THEN Invoke(f.default.v, uuids + 1)
                   ELSE IF missing THEN Absent
                   ELSE f.default.v
              n == IF factory THEN uuids + 2 ELSE uuids + 1
              c == IF missing THEN Pure(heap, Error("MissingRequiredField"))
                   ELSE Convert(heap, f.converter, x, n)
              outcome == IF IsError(c.val) THEN c.val
                         ELSE Validate(c.heap, f.validator, c.val)
          IN  /\ heap' = c.heap
              /\ uuids' = uuids + (IF factory THEN 1 ELSE 0)
                                + (IF c.gen THEN 1 ELSE 0)
              /\ instances' = IF IsError(outcome) THEN instances
                              ELSE Append(instances,
                                          [raw |-> raw, value |-> c.val])
              /\ call' = [op |-> "init", raw |-> raw, input |-> x,
                          converted |-> c.val, outcome |-> outcome,
                          before |-> Len(instances), uuids |-> uuids]
    /\ UNCHANGED <<descs, model, out>>

\* the name a field is written under: its metadata key, or its own name
OutputKey(f) ==
    IF "key" \in DOMAIN f.metadata /\ f.metadata["key"] # None
    THEN f.metadata["key"].v ELSE f.name

\* the JSON form of a canonical value
RECURSIVE JsonValue(_, _, _)
JsonValue(h, f, x) ==
    CASE x.t \in {"NoneType", "bool", "int", "float", "str"} -> x
      [] x.t = "Decimal" -> V("number", x.v)
      [] x.t \in {"date", "datetime", "time"} ->
            Str(Strftime(f.metadata["formatter"].v))
      [] x.t = "ParseResult" -> Str(x.v)
      [] x.t = "UUID" -> IF x.v = 0 THEN Str(UUIDText) ELSE V("hex", x.v)
      [] x.t = "object" -> V("dict", Dict1("int", x.v.fields["my_test_field"]))
      [] x.t = "ref" /\ h[x.v].t = "TypedSequence" ->
            V("array", [i \in DOMAIN h[x.v].v |-> JsonValue(h, f, h[x.v].v[i])])
      [] x.t = "ref" /\ h[x.v].t = "TypedSet" ->
            V("array-of", {JsonValue(h, f, e) : e \in h[x.v].v})
      [] x.t = "ref" /\ h[x.v].t = "TypedMapping" ->
            V("members", [i \in DOMAIN h[x.v].v |->
                            <<h[x.v].v[i][1], JsonValue(h, f, h[x.v].v[i][2])>>])

(* to_json: every field is written under its output key.  The test module *)
(* shows a field whose metadata carries exclude=True written all the same. *)
to_json(h, f, obj) == V("json", Dict1(OutputKey(f), JsonValue(h, f, obj.value)))

ToJson(i) ==
    /\ model.t = "model"
    /\ i \in 1..Len(instances)
    /\ out' = to_json(heap, model.v, instances[i])
    /\ call' = [op |-> "to_json", instance |-> i]
    /\ UNCHANGED <<heap, descs, model, instances, uuids>>

Fields(in) ==
    \/ CallBooleanField(in)
    \/ CallChildField(in)
    \/ CallDateField(in)
    \/ CallDateTimeField(in)
    \/ CallTimeField(in)
    \/ CallFloatField(in)
    \/ CallIntegerField(in)
    \/ CallMappingField(in)
    \/ CallRegexField(in)
    \/ CallSequenceField(in)
    \/ CallSetField(in)
    \/ CallStringField(in)
    \/ CallURLField(in)
    \/ CallUUIDField(in)
    \/ CallDecimalField(in)

Init ==
    /\ heap = <<>>
    /\ descs = <<>>
    /\ model = NoModel
    /\ instances = <<>>
    /\ uuids = 0
    /\ out = NoOut
    /\ call = [op |-> "none"]

Serialising ==
    \/ \E i \in 1..MaxDescs : DefineModel(i)
    \/ Instantiate
    \/ \E i \in 1..MaxInstances : ToJson(i)

(* The constructors alone, over required and default.                      *)
NextDefaults == Fields(DefaultsProfile)
SpecDefaults == Init /\ [][NextDefaults]_vars

(* The constructors alone, over key, formatter and metadata.               *)
NextMetadata == Fields(MetadataProfile)
SpecMetadata == Init /\ [][NextMetadata]_vars

(* Declaration, assembly, instantiation and serialisation of a model.      *)
Next == Fields(PipelineProfile) \/ Serialising
Spec == Init /\ [][Next]_vars

(* The same for a model whose declarations may pass one mapping twice.     *)
NextSerialise == Fields(SerialiseProfile) \/ Serialising
SpecSerialise == Init /\ [][NextSerialise]_vars

---------------------------------------------------------------------------
(* What the claims speak of.                                               *)

Temporal == {"Date", "DateTime", "Time"}

\* the metadata mapping of the i-th descriptor, as it is now
MetadataOf(i) == heap[descs[i].attr.metadata.v].v

\* the entries the constructor of a kind presets
PresetNames(kind) == {"key"} \cup (IF kind \in Temporal THEN {"formatter"} ELSE {})

\* the model's field was declared required=False (or required=True) without
\* a default
DeclaredOptional == ~model.v.decl.required /\ model.v.decl.default = NOTHING
DeclaredRequired == model.v.decl.required /\ model.v.decl.default = NOTHING

\* equal values: containers are compared by what they hold
Same(h, a, b) == IF IsRef(a) /\ IsRef(b) THEN h[a.v] = h[b.v] ELSE a = b

\* C1: the metadata of the descriptor a field constructor returns is the
\* mapping the caller supplied (empty when none was given) overridden by the
\* presets: 'key' holds the key argument for every kind, 'formatter' the
\* formatter argument for Date, DateTime and Time, every other supplied entry
\* keeps its value, and where a supplied entry and a preset share a name the
\* preset's value is the one stored.
C1_MetadataIsSuppliedOverriddenByPresets ==
    call.op = "field" =>
        LET md == MetadataOf(call.ret)
        IN  /\ DOMAIN md = DOMAIN call.supplied \cup PresetNames(call.kind)
            /\ md["key"] = call.key
            /\ call.kind \in Temporal => md["formatter"] = call.formatter
            /\ \A k \in DOMAIN call.supplied \ PresetNames(call.kind) :
                    md[k] = call.supplied[k]

\* a Date field returned for a caller whose mapping collides with both presets
C1_Witness ==
    /\ call.op = "field"
    /\ call.kind = "Date"
    /\ {"key", "formatter", "exclude"} \subseteq DOMAIN call.supplied
    /\ call.supplied["key"] # call.key
    /\ call.supplied["formatter"] # call.formatter
    /\ MetadataOf(call.ret)["exclude"] = Bool(TRUE)

\* C5 as stated: for every descriptor, whatever the arguments, the output
\* key entry and the exclude entry are both retrievable and neither is null.
C5_KeyAndExcludeNeverNull ==
    \A i \in 1..Len(descs) :
        /\ "key" \in DOMAIN MetadataOf(i) /\ MetadataOf(i)["key"] # None
        /\ "exclude" \in DOMAIN MetadataOf(i) /\ MetadataOf(i)["exclude"] # None

\* C5 amended: for every descriptor the key entry is retrievable; in the
\* descriptor a constructor returns it is null exactly when the key argument
\* was omitted, and the exclude entry is there exactly when the caller's
\* mapping supplied one.
C5_KeyEntryPresentExcludeOnlyIfSupplied ==
    /\ \A i \in 1..Len(descs) : "key" \in DOMAIN MetadataOf(i)
    /\ call.op = "field" =>
        /\ MetadataOf(call.ret)["key"] = None <=> call.key = None
        /\ "exclude" \in DOMAIN MetadataOf(call.ret)
                <=> "exclude" \in DOMAIN call.supplied

\* a constructor called with neither key nor metadata
C5_Witness ==
    /\ call.op = "field"
    /\ call.key = None
    /\ call.metadata = None
    /\ MetadataOf(call.ret) = KeyPreset(None)

\* C7: for every descriptor a default is present if and only if required is
\* false; a descriptor built with required=True has no default even when the
\* caller passed one.
C7_DefaultIffNotRequired ==
    \A i \in 1..Len(descs) :
        descs[i].attr.default # NOTHING <=> ~descs[i].decl.required

\* a descriptor declared required=True together with a default
C7_Witness ==
    \E i \in 1..Len(descs) :
        /\ descs[i].decl.required
        /\ descs[i].decl.default # NOTHING
        /\ descs[i].attr.default = NOTHING

\* C8 as stated: every descriptor carries a non-null converter and a
\* non-null validator.
C8_ConverterAndValidatorNonNull ==
    \A i \in 1..Len(descs) :
        descs[i].attr.converter # None /\ descs[i].attr.validator # None

\* C8 amended: every descriptor carries a non-null validator, and a non-null
\* converter unless it is a Boolean field's, which carries none.
C8_ValidatorAlwaysConverterUnlessBoolean ==
    \A i \in 1..Len(descs) :
        /\ descs[i].attr.validator # None
        /\ descs[i].attr.converter = None <=> descs[i].kind = "Boolean"

\* a Boolean descriptor beside one of another kind
C8_Witness ==
    \E i, j \in 1..Len(descs) :
        /\ descs[i].kind = "Boolean" /\ descs[i].attr.converter = None
        /\ descs[j].kind = "String" /\ descs[j].attr.converter # None

\* what a descriptor offers its readers: default, converter, validator and
\* the entries of its metadata
Surface(i) ==
    [default |-> descs[i].attr.default, converter |-> descs[i].attr.converter,
     validator |-> descs[i].attr.validator, metadata |-> MetadataOf(i)]

\* C10: once a constructor has returned a descriptor, no later operation
\* changes its default, converter, validator or metadata.
C10_DescriptorsReadOnly ==
    [][\A i \in 1..Len(descs) : Surface(i)' = Surface(i)]_vars

\* C2: when the model's field was declared required=True without a default
\* and the raw value is omitted, instantiation raises the missing-required-
\* field error and no instance comes to exist.
C2_RequiredFieldLaw ==
    (call.op = "init" /\ call.raw = Absent /\ DeclaredRequired) =>
        /\ call.outcome = Error("MissingRequiredField")
        /\ Len(instances) = call.before

\* an Integer field declared required, instantiated without its value after
\* an instance was built
C2_Witness ==
    /\ call.op = "init" /\ call.raw = Absent /\ DeclaredRequired
    /\ model.v.kind = "Integer"
    /\ call.before = 1

\* the value an optional field without default is said to hold when no raw
\* value is given
HoldsItsEmptyValue(kind, x) ==
    CASE kind = "Sequence" -> IsRef(x) /\ heap[x.v] = V("TypedSequence", <<>>)
      [] kind = "Set" -> IsRef(x) /\ heap[x.v] = V("TypedSet", {})
      [] kind = "Mapping" -> IsRef(x) /\ heap[x.v] = V("TypedMapping", <<>>)
      [] kind = "UUID" -> x = Generated(uuids)
      [] OTHER -> x = None

\* C3: for every kind, a field declared required=False without a default and
\* instantiated without a raw value yields an instance, whose field holds
\* null, or an empty typed collection, or a generated UUID.
C3_OptionalFieldConstructs ==
    (call.op = "init" /\ call.raw = Absent /\ DeclaredOptional) =>
        /\ call.outcome = V("Ok", 0)
        /\ Len(instances) = call.before + 1
        /\ HoldsItsEmptyValue(model.v.kind, instances[Len(instances)].value)

\* C4: a UUID field declared required=False without a default has a Factory
\* default: every instantiation without a raw value invokes the generator
\* once, and any two such instances hold different UUIDs.
C4_UUIDDefaultIsFactory ==
    (model.t = "model" /\ model.v.kind = "UUID" /\ DeclaredOptional) =>
        /\ model.v.default = Factory(uuid4)
        /\ (call.op = "init" /\ call.raw = Absent) =>
                /\ uuids = call.uuids + 1
                /\ Len(instances) = call.before + 1
                /\ instances[Len(instances)].value.t = "UUID"
        /\ \A i, j \in 1..Len(instances) :
                (i # j /\ instances[i].raw = Absent /\ instances[j].raw = Absent)
                    => instances[i].value # instances[j].value

\* two instances of such a model, both built without a raw value
C4_Witness ==
    /\ model.t = "model" /\ model.v.kind = "UUID" /\ DeclaredOptional
    /\ Len(instances) = 2
    /\ instances[1].raw = Absent /\ instances[2].raw = Absent
    /\ call.op = "init"

\* C9: whatever a field's converter makes of a raw value it accepts, the
\* converter applied to that result gives the same value again (the
\* conversion step of a field without converter leaves the value as it is).
C9_ConverterIdempotent ==
    (call.op = "init" /\ call.outcome # Error("MissingRequiredField")
                      /\ ~IsError(call.converted)) =>
        LET again == Convert(heap, model.v.converter, call.converted, uuids + 1)
        IN  /\ ~IsError(again.val)
            /\ Same(again.heap, again.val, call.converted)

\* a Decimal field given a numeral, converted to the decimal it denotes
C9_Witness ==
    /\ call.op = "init"
    /\ model.v.kind = "Decimal"
    /\ call.raw = Str("1.5")
    /\ call.converted = Dec(3)

\* C6: to_json writes the value of a field declared with key=K under the
\* name K, not under the attribute's name, for every field that holds a
\* value.
C6_WrittenUnderDeclaredKey ==
    (call.op = "to_json" /\ model.v.decl.key # None
        /\ instances[call.instance].value # None) =>
        /\ DOMAIN out.v = {model.v.decl.key.v}
        /\ out.v[model.v.decl.key.v]
                = JsonValue(heap, model.v, instances[call.instance].value)

(* C11: in a model whose Sequence, Set or Mapping field is declared        *)
(* required=False with no default, every instance constructed with no raw  *)
(* value holds a typed collection of its own: an object that is neither    *)
(* the empty container the field constructor created nor the collection    *)
(* of any other such instance; and that container is still empty, so      *)
(* nothing reaches one instance, or the default, through another.          *)
CollectionKinds == {"Sequence", "Set", "Mapping"}

TypedCollection(kind) ==
    CASE kind = "Sequence" -> "TypedSequence"
      [] kind = "Set" -> "TypedSet"
      [] kind = "Mapping" -> "TypedMapping"

EmptyContainer(kind) ==
    CASE kind = "Sequence" -> V("list", <<>>)
      [] kind = "Set" -> V("set", {})
      [] kind = "Mapping" -> V("OrderedDict", <<>>)

\* the instances constructed with no raw value
Defaulted == {i \in 1..Len(instances) : instances[i].raw = Absent}

C11_InstancesShareNoCollection ==
    (model.t = "model" /\ model.v.kind \in CollectionKinds /\ DeclaredOptional)
        => /\ model.v.default.t = "Fixed"
           /\ IsRef(model.v.default.v)
           /\ heap[model.v.default.v.v] = EmptyContainer(model.v.kind)
           /\ \A i \in Defaulted :
                 /\ IsRef(instances[i].value)
                 /\ heap[instances[i].value.v].t = TypedCollection(model.v.kind)
                 /\ instances[i].value # model.v.default.v
                 /\ \A j \in Defaulted \ {i} :
                       instances[j].value # instances[i].value

\* two instances of such a model, both constructed with no raw value
C11_Witness ==
    /\ model.t = "model"
    /\ model.v.kind \in CollectionKinds
    /\ DeclaredOptional
    /\ Len(instances) = 2
    /\ Defaulted = {1, 2}

====
